---- MODULE Spec2Model ----
(***************************************************************************)
(* The calculator of static/js/calculator.js as a state machine.           *)
(*                                                                         *)
(* Text (currentInput and the two display elements' textContent) is a      *)
(* sequence of one-character strings.  A JavaScript number is a record     *)
(* [kind, neg, mag]: kind is "num" or "nan", neg the sign, and mag the     *)
(* magnitude in units of 10^-8 as a little-endian sequence of base-10^4    *)
(* limbs (<<>> is zero), so that every value the calculator can hold       *)
(* after its rounding to 8 decimals is represented exactly.  Binary        *)
(* floating point is abstracted to exact decimal arithmetic; magnitudes    *)
(* of 10^21 and more, Infinity and numerals typed with more than 8         *)
(* fractional digits lie outside the model's bounds.                       *)
(***************************************************************************)
EXTENDS Integers, Sequences, FiniteSets

----------------------------------------------------------------------------
(* Bounds of the model *)

\* digit buttons and digit keys explored are 0..MaxDigit
MaxDigit == 2
\* digit and decimal-point events of a behaviour
MaxTyped == 3
\* error timers pending at once
MaxTimers == 2
\* digit and decimal-point events of a behaviour that only enters and evaluates
MaxEntered == 4

----------------------------------------------------------------------------
(* Characters and text *)

DigitChars == <<"0", "1", "2", "3", "4", "5", "6", "7", "8", "9">>

IsDigit(c) == \E i \in 1..Len(DigitChars) : DigitChars[i] = c

DigitVal(c) == (CHOOSE i \in 1..Len(DigitChars) : DigitChars[i] = c) - 1

DigitChar(d) == DigitChars[d + 1]

\* s.indexOf(c) === -1
Contains(s, c) == \E i \in 1..Len(s) : s[i] = c

RECURSIVE StripLeadingZeros(_)
StripLeadingZeros(ds) ==
    IF ds # <<>> /\ Head(ds) = "0" THEN StripLeadingZeros(Tail(ds)) ELSE ds

RECURSIVE StripTrailingZeros(_)
StripTrailingZeros(ds) ==
    IF ds # <<>> /\ ds[Len(ds)] = "0"
    THEN StripTrailingZeros(SubSeq(ds, 1, Len(ds) - 1))
    ELSE ds

RECURSIVE Zeros(_)
Zeros(n) == IF n <= 0 THEN <<>> ELSE <<"0">> \o Zeros(n - 1)

\* the longest prefix of s made of digits
RECURSIVE DigitRun(_)
DigitRun(s) ==
    IF s # <<>> /\ IsDigit(Head(s)) THEN <<Head(s)>> \o DigitRun(Tail(s)) ELSE <<>>

Drop(s, n) == SubSeq(s, n + 1, Len(s))

\* decimal digits of a natural number that fits a machine integer
RECURSIVE NatChars(_)
NatChars(n) ==
    IF n < 10 THEN <<DigitChar(n)>> ELSE NatChars(n \div 10) \o <<DigitChar(n % 10)>>

RECURSIVE CharsNat(_)
CharsNat(ds) ==
    IF ds = <<>> THEN 0 ELSE 10 * CharsNat(SubSeq(ds, 1, Len(ds) - 1)) + DigitVal(ds[Len(ds)])

----------------------------------------------------------------------------
(* Magnitudes: little-endian base-10^4 limbs, in units of 10^-8 *)

Base == 100 * 100

\* the limbs that hold the 8 fractional digits
FracZeros == <<0, 0>>

\* 1 in units of 10^-8
OneMag == FracZeros \o <<1>>

RECURSIVE Norm(_)
Norm(m) ==
    IF m # <<>> /\ m[Len(m)] = 0 THEN Norm(SubSeq(m, 1, Len(m) - 1)) ELSE m

Limb(m, i) == IF i >= 1 /\ i <= Len(m) THEN m[i] ELSE 0

RECURSIVE AddFrom(_, _, _, _)
AddFrom(a, b, i, c) ==
    IF i > Len(a) /\ i > Len(b)
    THEN IF c = 0 THEN <<>> ELSE <<c>>
    ELSE LET s == Limb(a, i) + Limb(b, i) + c
         IN  <<s % Base>> \o AddFrom(a, b, i + 1, s \div Base)

MagAdd(a, b) == Norm(AddFrom(a, b, 1, 0))

RECURSIVE LessAt(_, _, _)
LessAt(a, b, i) ==
    IF i = 0 THEN FALSE
    ELSE IF a[i] # b[i] THEN a[i] < b[i]
    ELSE LessAt(a, b, i - 1)

\* a < b, for normalised magnitudes
MagLess(a, b) == Len(a) < Len(b) \/ (Len(a) = Len(b) /\ LessAt(a, b, Len(a)))

RECURSIVE SubFrom(_, _, _, _)
SubFrom(a, b, i, borrow) ==
    IF i > Len(a) THEN <<>>
    ELSE LET d == Limb(a, i) - Limb(b, i) - borrow
         IN  <<(d + Base) % Base>> \o SubFrom(a, b, i + 1, IF d < 0 THEN 1 ELSE 0)

\* a - b, for a >= b
MagSub(a, b) == Norm(SubFrom(a, b, 1, 0))

RECURSIVE MulLimbFrom(_, _, _, _)
MulLimbFrom(a, k, i, c) ==
    IF i > Len(a)
    THEN IF c = 0 THEN <<>> ELSE <<c % Base>> \o (IF c \div Base = 0 THEN <<>> ELSE <<c \div Base>>)
    ELSE LET p == a[i] * k + c
         IN  <<p % Base>> \o MulLimbFrom(a, k, i + 1, p \div Base)

\* a * k, for 0 <= k <= Base
MagMulSmall(a, k) == Norm(MulLimbFrom(a, k, 1, 0))

RECURSIVE ZeroLimbs(_)
ZeroLimbs(n) == IF n <= 0 THEN <<>> ELSE <<0>> \o ZeroLimbs(n - 1)

\* m * Base^n
ShiftUp(m, n) == IF m = <<>> THEN <<>> ELSE ZeroLimbs(n) \o m

RECURSIVE MulFrom(_, _, _)
MulFrom(a, b, j) ==
    IF j > Len(b) THEN <<>>
    ELSE MagAdd(ShiftUp(MagMulSmall(a, b[j]), j - 1), MulFrom(a, b, j + 1))

MagMul(a, b) == MulFrom(a, b, 1)

\* the largest q in lo..hi-1 with q * d <= r, given lo * d <= r < hi * d
RECURSIVE QuotLimb(_, _, _, _)
QuotLimb(r, d, lo, hi) ==
    IF hi - lo <= 1 THEN lo
    ELSE LET mid == (lo + hi) \div 2
         IN  IF MagLess(r, MagMulSmall(d, mid))
             THEN QuotLimb(r, d, lo, mid)
             ELSE QuotLimb(r, d, mid, hi)

\* long division from the highest limb of n down: [q |-> n div d, r |-> n mod d]
RECURSIVE DivFrom(_, _, _, _, _)
DivFrom(n, d, i, rem, q) ==
    IF i = 0 THEN [q |-> Norm(q), r |-> rem]
    ELSE LET r1 == Norm(<<n[i]>> \o rem)
             qi == QuotLimb(r1, d, 0, Base)
         IN  DivFrom(n, d, i - 1, MagSub(r1, MagMulSmall(d, qi)), <<qi>> \o q)

MagDivMod(n, d) == DivFrom(n, d, Len(n), <<>>, <<>>)

\* the magnitude whose decimal digits are ds
RECURSIVE DigitsMagFrom(_)
DigitsMagFrom(ds) ==
    IF ds = <<>> THEN <<>>
    ELSE IF Len(ds) <= 4 THEN <<CharsNat(ds)>>
    ELSE <<CharsNat(SubSeq(ds, Len(ds) - 3, Len(ds)))>>
         \o DigitsMagFrom(SubSeq(ds, 1, Len(ds) - 4))

DigitsMag(ds) == Norm(DigitsMagFrom(ds))

\* the four decimal digits of a limb
LimbChars(l) ==
    <<DigitChar(l \div 1000), DigitChar((l \div 100) % 10),
      DigitChar((l \div 10) % 10), DigitChar(l % 10)>>

\* decimal digits of a magnitude counted as an integer, "0" for zero
RECURSIVE MagCharsFrom(_, _)
MagCharsFrom(m, i) ==
    IF i = 0 THEN <<>> ELSE LimbChars(m[i]) \o MagCharsFrom(m, i - 1)

MagChars(m) ==
    LET ds == StripLeadingZeros(MagCharsFrom(m, Len(m)))
    IN  IF ds = <<>> THEN <<"0">> ELSE ds

\* integer part and the 8 fractional digits of a magnitude in units of 10^-8
IntPart(m) == Norm(Drop(m, Len(FracZeros)))

FracChars(m) == LimbChars(Limb(m, 2)) \o LimbChars(Limb(m, 1))

----------------------------------------------------------------------------
(* JavaScript numbers *)

\* digits kept after the decimal point: the 10^8 of performCalculation's rounding
FracDigits == 8

\* Number.EPSILON * 10^8 = 2.2204e-8, in units of Base^-3 = 10^-12
EpsilonScaled == 22204

\* a computed number: a result of zero is only ever read through String, which
\* shows no sign, so its sign is dropped
Num(neg, mag) == [kind |-> "num", neg |-> neg /\ mag # <<>>, mag |-> mag]

NaN == [kind |-> "nan", neg |-> FALSE, mag |-> <<>>]

\* previousInput === ''
Unset == [kind |-> "unset", neg |-> FALSE, mag |-> <<>>]

isNaN(v) == v.kind # "num"

\* the digits of a literal as integer digits followed by FracDigits fractional
\* digits: all are the literal's digits, pos of them before the decimal point
FixedDigits(all, pos) ==
    SubSeq(Zeros(0 - pos) \o all \o Zeros(pos - Len(all) + FracDigits),
           1, (IF pos < 0 THEN 0 ELSE pos) + FracDigits)

\* a literal of value zero keeps its sign: parseFloat('-0') is -0, which
\* toLocaleString shows as -0 and String as 0
MakeNumber(neg, ip, fp, exp) ==
    IF ip \o fp = <<>> THEN NaN
    ELSE [kind |-> "num", neg |-> neg,
          mag |-> DigitsMag(FixedDigits(ip \o fp, Len(ip) + exp))]

\* the value of an exponent part e[+-]digits at the head of rest, 0 without one
ExponentOf(rest) ==
    IF Len(rest) < 2 \/ Head(rest) \notin {"e", "E"} THEN 0
    ELSE (IF rest[2] = "-" THEN 0 - 1 ELSE 1)
         * CharsNat(DigitRun(IF rest[2] \in {"-", "+"} THEN Drop(rest, 2) ELSE Tail(rest)))

\* the digits of a fraction part .digits at the head of rest
FractionOf(rest) ==
    IF rest # <<>> /\ Head(rest) = "." THEN DigitRun(Tail(rest)) ELSE <<>>

AfterFraction(rest, fp) ==
    IF rest # <<>> /\ Head(rest) = "." THEN Drop(rest, 1 + Len(fp)) ELSE rest

ParseFraction(neg, ip, rest, fp) ==
    MakeNumber(neg, ip, fp, ExponentOf(AfterFraction(rest, fp)))

ParseInteger(neg, ip, rest) == ParseFraction(neg, ip, rest, FractionOf(rest))

ParseUnsigned(neg, body, ip) == ParseInteger(neg, ip, Drop(body, Len(ip)))

ParseSigned(neg, body) == ParseUnsigned(neg, body, DigitRun(body))

\* parseFloat of a text: the longest prefix that is a decimal literal
\* ([+-] digits [. digits] [e [+-] digits]); NaN when there is none
parseFloat(s) ==
    ParseSigned(s # <<>> /\ Head(s) = "-",
                IF s # <<>> /\ Head(s) \in {"-", "+"} THEN Tail(s) ELSE s)

Sign(v) == IF v.neg THEN <<"-">> ELSE <<>>

\* digits d1 d2 ... as d1.d2...
Mantissa(man) == <<Head(man)>> \o (IF Len(man) > 1 THEN <<".">> \o Tail(man) ELSE <<>>)

Fraction(fr) == IF fr = <<>> THEN <<>> ELSE <<".">> \o fr

\* a magnitude below 10^-6: sig are its fractional digits from the first that is not 0
SmallString(sig) ==
    Mantissa(StripTrailingZeros(sig)) \o <<"e", "-">> \o NatChars(FracDigits - Len(sig) + 1)

MagString(ip, fr, sig) ==
    IF ip = <<>> /\ FracDigits - Len(sig) >= 6 THEN SmallString(sig)
    ELSE MagChars(ip) \o Fraction(StripTrailingZeros(fr))

FracString(ip, fr) == MagString(ip, fr, StripLeadingZeros(fr))

\* String(number)
String(v) ==
    IF v.kind # "num" THEN <<"N", "a", "N">>
    ELSE IF v.mag = <<>> THEN <<"0">>
    ELSE Sign(v) \o FracString(IntPart(v.mag), FracChars(v.mag))

\* parseFloat of previousInput: of '' or of a number, through its string
parseFloatValue(v) == IF v.kind = "unset" THEN NaN ELSE parseFloat(String(v))

\* mantissa m and exponent e as d.dddddde+x
ExponentialChars(md, e) ==
    Mantissa(md) \o <<"e", IF e < 0 THEN "-" ELSE "+">> \o NatChars(IF e < 0 THEN 0 - e ELSE e)

\* seven digits m of a mantissa, not yet carried, with exponent e
CarryMantissa(m, e) ==
    IF m >= 10000000 THEN ExponentialChars(NatChars(m \div 10), e + 1)
    ELSE ExponentialChars(NatChars(m), e)

\* the significant digits sig rounded to seven, half up
RoundMantissa(first, e) ==
    CarryMantissa(CharsNat(SubSeq(first, 1, 7)) + (IF DigitVal(first[8]) >= 5 THEN 1 ELSE 0), e)

ExponentialOf(ipd, sig) ==
    RoundMantissa(SubSeq(sig \o Zeros(FracDigits), 1, 8),
                  IF ipd # <<>> THEN Len(ipd) - 1 ELSE 0 - (FracDigits - Len(sig) + 1))

ExponentialDigits(ipd, fr) == ExponentialOf(ipd, StripLeadingZeros(ipd \o fr))

\* number.toExponential(6), for number # 0
toExponential(v) ==
    Sign(v) \o ExponentialDigits(IF IntPart(v.mag) = <<>> THEN <<>> ELSE MagChars(IntPart(v.mag)),
                                 FracChars(v.mag))

\* number.toLocaleString('en-US', {maximumFractionDigits: 8, useGrouping: false})
toLocaleString(v) ==
    Sign(v) \o MagChars(IntPart(v.mag)) \o Fraction(StripTrailingZeros(FracChars(v.mag)))

\* Math.abs(number) >= 1e10 || (Math.abs(number) < 1e-6 && number !== 0)
IsExtreme(v) ==
    \/ Len(IntPart(v.mag)) > 3
    \/ (Len(IntPart(v.mag)) = 3 /\ v.mag[Len(v.mag)] >= 100)
    \/ (v.mag # <<>> /\ Len(v.mag) = 1 /\ v.mag[1] < 100)

\* formatNumber, from the number it parses
formatParsed(number) ==
    IF isNaN(number) THEN <<"0">>
    ELSE IF IsExtreme(number) THEN toExponential(number)
    ELSE toLocaleString(number)

\* formatNumber(num) for a text and for previousInput
formatNumber(num) == formatParsed(parseFloat(num))

formatNumberValue(num) == formatParsed(parseFloatValue(num))

\* The exact result of an arithmetic operator on two numbers, before rounding:
\* result * 10^8 = (+/-) n / d
ExactAdd(a, b) ==
    IF a.neg = b.neg THEN [neg |-> a.neg, n |-> MagAdd(a.mag, b.mag), d |-> <<1>>]
    ELSE IF MagLess(a.mag, b.mag)
         THEN [neg |-> b.neg, n |-> MagSub(b.mag, a.mag), d |-> <<1>>]
         ELSE [neg |-> a.neg, n |-> MagSub(a.mag, b.mag), d |-> <<1>>]

Negate(b) == [b EXCEPT !.neg = ~b.neg]

ExactMul(a, b) == [neg |-> a.neg # b.neg, n |-> MagMul(a.mag, b.mag), d |-> OneMag]

\* for b # 0
ExactDiv(a, b) ==
    [neg |-> a.neg # b.neg, n |-> ShiftUp(a.mag, Len(FracZeros)), d |-> b.mag]

\* prev + current, prev - current, prev * current, prev / current
Exact(op, a, b) ==
    CASE op = "add" -> ExactAdd(a, b)
      [] op = "subtract" -> ExactAdd(a, Negate(b))
      [] op = "multiply" -> ExactMul(a, b)
      [] op = "divide" -> ExactDiv(a, b)

\* whether y = (+/-) (q + r/d) + epsilon rounds away from q, given 2r, d and
\* 2 * epsilon * d, all scaled by Base^3
RoundsUp(neg, twoR, half, eps) ==
    IF neg THEN MagLess(MagAdd(half, eps), twoR)
    ELSE ~MagLess(MagAdd(twoR, eps), half)

RoundQuotient(x, dm) ==
    Num(x.neg,
        IF RoundsUp(x.neg /\ x.n # <<>>, ShiftUp(MagMulSmall(dm.r, 2), 3),
                    ShiftUp(x.d, 3), ShiftUp(MagMulSmall(x.d, 2 * EpsilonScaled), 0))
        THEN MagAdd(dm.q, <<1>>)
        ELSE dm.q)

\* variant of RoundResult: the digits after the eighth are cut off
RoundResult_truncate(x) == Num(x.neg, MagDivMod(x.n, x.d).q)

\* Math.round((result + Number.EPSILON) * 100000000) / 100000000:
\* Math.round(y) is floor(y + 1/2)
RoundResult(x) == RoundQuotient(x, MagDivMod(x.n, x.d))

----------------------------------------------------------------------------
(* The Calculator object *)

VARIABLES
    currentInput,       \* this.currentInput: text
    previousInput,      \* this.previousInput: Unset ('') or a number
    operator,           \* this.operator: "null" or an operator name
    waitingForOperand,  \* this.waitingForOperand
    justCalculated,     \* this.justCalculated
    displayPrimary,     \* this.displayPrimary.textContent
    displayError,       \* 'display-error' in this.displayPrimary.classList
    displaySecondary,   \* this.displaySecondary.textContent
    timers,             \* setTimeout callbacks of showError not yet run
    typed,              \* history: digit and decimal-point events so far
    log,                \* history: the events since the state was last initial, while they
                        \* read  operand (operator operand)* [equals]  without an error; else Off
    timerRan,           \* history: the last step was the callback of a timer
    budget              \* the digit and decimal-point events the behaviour may hold

calc == <<currentInput, previousInput, operator, waitingForOperand, justCalculated,
          displayPrimary, displayError, displaySecondary>>

vars == <<currentInput, previousInput, operator, waitingForOperand, justCalculated,
          displayPrimary, displayError, displaySecondary, timers, typed, log, timerRan,
          budget>>

\* the object's fields and the page's elements as one record
This ==
    [currentInput |-> currentInput, previousInput |-> previousInput,
     operator |-> operator, waitingForOperand |-> waitingForOperand,
     justCalculated |-> justCalculated, displayPrimary |-> displayPrimary,
     displayError |-> displayError, displaySecondary |-> displaySecondary,
     timers |-> timers]

Operators == {"add", "subtract", "multiply", "divide"}

\* the value performCalculation returns on an error
Null == [kind |-> "null", neg |-> FALSE, mag |-> <<>>]

ErrorText == <<"E", "r", "r", "o", "r">>

DivideByZeroMessage ==
    <<"C", "a", "n", "n", "o", "t", " ", "d", "i", "v", "i", "d", "e", " ",
      "b", "y", " ", "z", "e", "r", "o">>

\* the characters U+2212, U+00D7 and U+00F7, each one character of a text
MinusSign == "U+2212"
TimesSign == "U+00D7"
DivisionSign == "U+00F7"

getOperatorSymbol(op) ==
    CASE op = "add" -> <<"+">>
      [] op = "subtract" -> <<MinusSign>>
      [] op = "multiply" -> <<TimesSign>>
      [] op = "divide" -> <<DivisionSign>>
      [] OTHER -> <<>>

updateDisplay(s) ==
    [s EXCEPT !.displayPrimary = formatNumber(s.currentInput), !.displayError = FALSE]

updateSecondaryDisplay(s, showResult) ==
    IF showResult /\ s.operator # "null" /\ s.previousInput # Unset
    THEN [s EXCEPT !.displaySecondary =
             formatNumberValue(s.previousInput) \o <<" ">> \o getOperatorSymbol(s.operator)
             \o <<" ">> \o formatNumber(s.currentInput) \o <<" ", "=">>]
    ELSE IF s.operator # "null" /\ s.previousInput # Unset
    THEN [s EXCEPT !.displaySecondary =
             formatNumberValue(s.previousInput) \o <<" ">> \o getOperatorSymbol(s.operator)]
    ELSE s

clearSecondaryDisplay(s) == [s EXCEPT !.displaySecondary = <<>>]

\* variant of showError: no timer is started
showError_noTimer(s, message) ==
    [s EXCEPT !.displayPrimary = ErrorText, !.displayError = TRUE,
              !.displaySecondary = message]

\* the setTimeout callback is one more pending timer
showError(s, message) ==
    [s EXCEPT !.displayPrimary = ErrorText, !.displayError = TRUE,
              !.displaySecondary = message, !.timers = @ + 1]

\* variant of Calculation: a division by zero returns null without an error display
Calculation_silent(s, prev, current) ==
    IF isNaN(prev) \/ isNaN(current) \/ s.operator \notin Operators
    THEN [s |-> s, result |-> Null]
    ELSE IF s.operator = "divide" /\ current.mag = <<>>
    THEN [s |-> s, result |-> Null]
    ELSE [s |-> s, result |-> RoundResult(Exact(s.operator, prev, current))]

\* the switch of performCalculation and its rounding, for numbers prev and current:
\* [s |-> the object afterwards, result |-> the number returned, or Null]
Calculation(s, prev, current) ==
    IF isNaN(prev) \/ isNaN(current) \/ s.operator \notin Operators
    THEN [s |-> s, result |-> Null]
    ELSE IF s.operator = "divide" /\ current.mag = <<>>
    THEN [s |-> showError(s, DivideByZeroMessage), result |-> Null]
    ELSE [s |-> s, result |-> RoundResult(Exact(s.operator, prev, current))]

performCalculation(s) ==
    Calculation(s, parseFloatValue(s.previousInput), parseFloat(s.currentInput))

\* variant of inputNumber: a digit is appended to a lone '0' too
inputNumber_append(s, digit) ==
    updateDisplay(
        IF s.waitingForOperand
        THEN [s EXCEPT !.currentInput = digit, !.waitingForOperand = FALSE]
        ELSE IF s.justCalculated
        THEN clearSecondaryDisplay(
                 [s EXCEPT !.currentInput = digit, !.justCalculated = FALSE])
        ELSE [s EXCEPT !.currentInput = @ \o digit])

inputNumber(s, digit) ==
    updateDisplay(
        IF s.waitingForOperand
        THEN [s EXCEPT !.currentInput = digit, !.waitingForOperand = FALSE]
        ELSE IF s.justCalculated
        THEN clearSecondaryDisplay(
                 [s EXCEPT !.currentInput = digit, !.justCalculated = FALSE])
        ELSE [s EXCEPT !.currentInput = IF @ = <<"0">> THEN digit ELSE @ \o digit])

\* variant of inputDecimal: no test for a decimal point already there
inputDecimal_always(s) ==
    updateDisplay(
        IF s.waitingForOperand
        THEN [s EXCEPT !.currentInput = <<"0", ".">>, !.waitingForOperand = FALSE]
        ELSE IF s.justCalculated
        THEN clearSecondaryDisplay(
                 [s EXCEPT !.currentInput = <<"0", ".">>, !.justCalculated = FALSE])
        ELSE [s EXCEPT !.currentInput = @ \o <<".">>])

\* variant of inputDecimal: a new operand starts as '.' instead of '0.'
inputDecimal_bare(s) ==
    updateDisplay(
        IF s.waitingForOperand
        THEN [s EXCEPT !.currentInput = <<".">>, !.waitingForOperand = FALSE]
        ELSE IF s.justCalculated
        THEN clearSecondaryDisplay(
                 [s EXCEPT !.currentInput = <<".">>, !.justCalculated = FALSE])
        ELSE IF ~Contains(s.currentInput, ".")
        THEN [s EXCEPT !.currentInput = @ \o <<".">>]
        ELSE s)

inputDecimal(s) ==
    updateDisplay(
        IF s.waitingForOperand
        THEN [s EXCEPT !.currentInput = <<"0", ".">>, !.waitingForOperand = FALSE]
        ELSE IF s.justCalculated
        THEN clearSecondaryDisplay(
                 [s EXCEPT !.currentInput = <<"0", ".">>, !.justCalculated = FALSE])
        ELSE IF ~Contains(s.currentInput, ".")
        THEN [s EXCEPT !.currentInput = @ \o <<".">>]
        ELSE s)

\* variant of installOperator: justCalculated is left as it is
installOperator_keepsFlag(s, nextOperator) ==
    updateDisplay(updateSecondaryDisplay(
        [s EXCEPT !.waitingForOperand = TRUE, !.operator = nextOperator],
        FALSE))

\* the tail of handleOperator, after its branches
installOperator(s, nextOperator) ==
    updateDisplay(updateSecondaryDisplay(
        [s EXCEPT !.waitingForOperand = TRUE, !.operator = nextOperator,
                  !.justCalculated = FALSE],
        FALSE))

\* handleOperator once performCalculation has returned pc
chainOperator(pc, nextOperator) ==
    IF pc.result = Null THEN pc.s
    ELSE installOperator(
             [pc.s EXCEPT !.currentInput = String(pc.result), !.previousInput = pc.result],
             nextOperator)

\* variant of handleOperator: a pending operation is not evaluated
handleOperator_lazy(s, nextOperator) ==
    installOperator(
        IF s.previousInput = Unset
        THEN [s EXCEPT !.previousInput = parseFloat(s.currentInput)]
        ELSE s,
        nextOperator)

\* variant of handleOperator: waitingForOperand is not tested
handleOperator_noWait(s, nextOperator) ==
    IF s.previousInput # Unset /\ s.operator # "null"
    THEN chainOperator(performCalculation(s), nextOperator)
    ELSE installOperator(
             IF s.previousInput = Unset
             THEN [s EXCEPT !.previousInput = parseFloat(s.currentInput)]
             ELSE s,
             nextOperator)

handleOperator(s, nextOperator) ==
    IF s.previousInput # Unset /\ s.operator # "null" /\ ~s.waitingForOperand
    THEN chainOperator(performCalculation(s), nextOperator)
    ELSE installOperator(
             IF s.previousInput = Unset
             THEN [s EXCEPT !.previousInput = parseFloat(s.currentInput)]
             ELSE s,
             nextOperator)

\* variant of showResult: justCalculated is not set
showResult_noFlag(pc) ==
    IF pc.result = Null THEN pc.s
    ELSE updateDisplay(
             [updateSecondaryDisplay(pc.s, TRUE) EXCEPT
                 !.currentInput = String(pc.result),
                 !.previousInput = Unset,
                 !.operator = "null",
                 !.waitingForOperand = FALSE])

\* variant of showResult: the operator is kept
showResult_keepsOperator(pc) ==
    IF pc.result = Null THEN pc.s
    ELSE updateDisplay(
             [updateSecondaryDisplay(pc.s, TRUE) EXCEPT
                 !.currentInput = String(pc.result),
                 !.previousInput = Unset,
                 !.waitingForOperand = FALSE,
                 !.justCalculated = TRUE])

\* calculate once performCalculation has returned pc
showResult(pc) ==
    IF pc.result = Null THEN pc.s
    ELSE updateDisplay(
             [updateSecondaryDisplay(pc.s, TRUE) EXCEPT
                 !.currentInput = String(pc.result),
                 !.previousInput = Unset,
                 !.operator = "null",
                 !.waitingForOperand = FALSE,
                 !.justCalculated = TRUE])

\* variant of calculate: waitingForOperand is not tested
calculate_noWait(s) ==
    IF s.operator # "null" /\ s.previousInput # Unset
    THEN showResult(performCalculation(s))
    ELSE s

calculate(s) ==
    IF s.operator # "null" /\ s.previousInput # Unset /\ ~s.waitingForOperand
    THEN showResult(performCalculation(s))
    ELSE s

clear(s) == updateDisplay([s EXCEPT !.currentInput = <<"0">>])

\* variant of clearAll: the secondary display is left as it is
clearAll_keepsSecondary(s) ==
    updateDisplay(
        [s EXCEPT !.currentInput = <<"0">>, !.previousInput = Unset,
                  !.operator = "null", !.waitingForOperand = FALSE,
                  !.justCalculated = FALSE])

clearAll(s) ==
    updateDisplay(clearSecondaryDisplay(
        [s EXCEPT !.currentInput = <<"0">>, !.previousInput = Unset,
                  !.operator = "null", !.waitingForOperand = FALSE,
                  !.justCalculated = FALSE]))

\* variant of backspace: the last character is removed, also when it is the only one
backspace_slice(s) ==
    IF s.justCalculated THEN s
    ELSE updateDisplay([s EXCEPT !.currentInput = SubSeq(@, 1, Len(@) - 1)])

\* variant of backspace: justCalculated is not tested
backspace_always(s) ==
    updateDisplay(
        [s EXCEPT !.currentInput =
            IF Len(@) > 1 THEN SubSeq(@, 1, Len(@) - 1) ELSE <<"0">>])

backspace(s) ==
    IF s.justCalculated THEN s
    ELSE updateDisplay(
             [s EXCEPT !.currentInput =
                 IF Len(@) > 1 THEN SubSeq(@, 1, Len(@) - 1) ELSE <<"0">>])

handleAction(s, action) ==
    CASE action \in Operators -> handleOperator(s, action)
      [] action = "equals" -> calculate(s)
      [] action = "decimal" -> inputDecimal(s)
      [] action = "clear" -> clear(s)
      [] action = "clear-all" -> clearAll(s)
      [] action = "backspace" -> backspace(s)
      [] OTHER -> s

\* /[0-9]/.test(key)
HasDigit(key) == \E i \in 1..Len(key) : IsDigit(key[i])

\* the action the switch of handleKeyPress gives a key, "none" without a case
KeyAction(key) ==
    CASE key = <<"+">> -> "add"
      [] key = <<"-">> -> "subtract"
      [] key = <<"*">> -> "multiply"
      [] key = <<"/">> -> "divide"
      [] key = <<".">> -> "decimal"
      [] key = <<"=">> -> "equals"
      [] key = <<"E", "n", "t", "e", "r">> -> "equals"
      [] key = <<"E", "s", "c", "a", "p", "e">> -> "clear-all"
      [] key = <<"B", "a", "c", "k", "s", "p", "a", "c", "e">> -> "backspace"
      [] key = <<"c">> -> "clear"
      [] key = <<"C">> -> "clear"
      [] OTHER -> "none"

\* event.key is a text
handleKeyPress(s, key) ==
    handleAction(IF HasDigit(key) THEN inputNumber(s, key) ELSE s, KeyAction(key))

----------------------------------------------------------------------------
(* Events *)

Digits == 0..MaxDigit

\* keys of the keyboard: the calculator's keys and some others
CalculatorKeys ==
    {<<DigitChar(d)>> : d \in Digits}
    \cup {<<"+">>, <<"-">>, <<"*">>, <<"/">>, <<".">>, <<"=">>, <<"c">>, <<"C">>,
          <<"E", "n", "t", "e", "r">>, <<"E", "s", "c", "a", "p", "e">>,
          <<"B", "a", "c", "k", "s", "p", "a", "c", "e">>}

OtherKeys == {<<"a">>, <<"S", "h", "i", "f", "t">>, <<"F", "1">>}

Keys == CalculatorKeys \cup OtherKeys

Off == <<"off">>

Typing(token) == IsDigit(token) \/ token = "."

OperandTyped(l) == l # <<>> /\ Typing(l[Len(l)])

HasOperator(l) == \E i \in 1..Len(l) : l[i] \in Operators

\* the log after event ev has led to the object t
NextLog(t, ev) ==
    IF ev \in {"clear-all", "timeout"} THEN <<>>
    ELSE IF log = Off \/ (log # <<>> /\ log[Len(log)] = "equals") THEN Off
    ELSE IF Typing(ev) THEN Append(log, ev)
    ELSE IF ev \in Operators /\ OperandTyped(log) /\ ~t.displayError THEN Append(log, ev)
    ELSE IF ev = "equals" /\ OperandTyped(log) /\ HasOperator(log) /\ ~t.displayError
    THEN Append(log, ev)
    ELSE Off

\* events that call inputNumber or inputDecimal: "text" is inputNumber with a
\* text that is no digit
Entry(ev) == Typing(ev) \/ ev = "text"

NextTyped(ev) == IF Entry(ev) THEN typed + 1 ELSE typed

\* the object becomes t by event ev
Step(t, ev) ==
    /\ Entry(ev) => typed < budget
    /\ t.timers <= MaxTimers
    /\ currentInput' = t.currentInput
    /\ previousInput' = t.previousInput
    /\ operator' = t.operator
    /\ waitingForOperand' = t.waitingForOperand
    /\ justCalculated' = t.justCalculated
    /\ displayPrimary' = t.displayPrimary
    /\ displayError' = t.displayError
    /\ displaySecondary' = t.displaySecondary
    /\ timers' = t.timers
    /\ typed' = NextTyped(ev)
    /\ log' = NextLog(t, ev)
    /\ timerRan' = (ev = "timeout")
    /\ budget' = budget

\* displaySecondary.textContent of the page as loaded
InitialSecondaryText == <<>>

\* the object after its constructor
Created ==
    /\ currentInput = <<"0">>
    /\ previousInput = Unset
    /\ operator = "null"
    /\ waitingForOperand = FALSE
    /\ justCalculated = FALSE
    /\ displayPrimary = formatNumber(<<"0">>)
    /\ displayError = FALSE
    /\ displaySecondary = InitialSecondaryText
    /\ timers = 0
    /\ typed = 0
    /\ log = <<>>
    /\ timerRan = FALSE

Init == Created /\ budget = MaxTyped

\* the semantic events: each is one method of the object
SubmitDigit(d) == Step(inputNumber(This, <<DigitChar(d)>>), DigitChar(d))

SubmitDecimalPoint == Step(inputDecimal(This), ".")

SubmitOperator(op) == Step(handleOperator(This, op), op)

SubmitEquals == Step(calculate(This), "equals")

ClearEntry == Step(clear(This), "clear")

ClearAll == Step(clearAll(This), "clear-all")

Backspace == Step(backspace(This), "backspace")

\* the callback showError gave setTimeout runs
Timeout ==
    /\ timers > 0
    /\ Step([clearAll(This) EXCEPT !.timers = @ - 1], "timeout")

Next ==
    \/ \E d \in Digits : SubmitDigit(d)
    \/ SubmitDecimalPoint
    \/ \E op \in Operators : SubmitOperator(op)
    \/ SubmitEquals
    \/ ClearEntry
    \/ ClearAll
    \/ Backspace
    \/ Timeout

Spec == Init /\ [][Next]_vars

\* a step that runs the callback of a pending timer, told by the count of
\* timers: Timeout is the only action that takes a timer away, and it is enabled
\* whenever a timer is pending
TimerRuns == timers > 0 /\ timers' = timers - 1

\* a timer of setTimeout that is due runs its callback
FairSpec == Spec /\ WF_timers(TimerRuns)

\* behaviours that enter one operation with longer operands: digits and decimal
\* points, one operator, equals, and nothing after equals or an error but the
\* timer
EnterInit == Created /\ budget = MaxEntered

Entering == log # Off /\ ~(log # <<>> /\ log[Len(log)] = "equals")

EnterNext ==
    \/ Entering /\ \E d \in Digits : SubmitDigit(d)
    \/ Entering /\ SubmitDecimalPoint
    \/ Entering /\ ~HasOperator(log) /\ \E op \in Operators : SubmitOperator(op)
    \/ Entering /\ SubmitEquals
    \/ Timeout

EnterSpec == EnterInit /\ [][EnterNext]_vars

\* the semantic event a key stands for
KeyEvent(key) ==
    IF Len(key) = 1 /\ IsDigit(key[1]) THEN key[1]
    ELSE IF HasDigit(key) THEN "text"
    ELSE IF KeyAction(key) = "decimal" THEN "."
    ELSE IF KeyAction(key) = "none" THEN "other"
    ELSE KeyAction(key)

\* a keydown event of the document
KeyDown(key) == Step(handleKeyPress(This, key), KeyEvent(key))

NextKeys ==
    \/ \E key \in Keys : KeyDown(key)
    \/ Timeout

KeySpec == Init /\ [][NextKeys]_vars

----------------------------------------------------------------------------
(* Reference definitions of the properties *)

\* the state the constructor leaves, displays included
InitialState ==
    /\ currentInput = <<"0">>
    /\ previousInput = Unset
    /\ operator = "null"
    /\ waitingForOperand = FALSE
    /\ justCalculated = FALSE
    /\ displayPrimary = <<"0">>
    /\ displayError = FALSE
    /\ displaySecondary = InitialSecondaryText

\* the concatenation rule: a digit replaces a lone "0" and is appended
\* otherwise; a decimal point is appended only where there is none
NextInput(cur, k) ==
    IF k = "." THEN (IF Contains(cur, ".") THEN cur ELSE cur \o <<".">>)
    ELSE IF cur = <<"0">> THEN <<k>>
    ELSE cur \o <<k>>

RECURSIVE ConcatFrom(_, _)
ConcatFrom(cur, keys) ==
    IF keys = <<>> THEN cur ELSE ConcatFrom(NextInput(cur, Head(keys)), Tail(keys))

ConcatRule(keys) == ConcatFrom(<<"0">>, keys)

AllTyping(l) == \A i \in 1..Len(l) : Typing(l[i])

Front(l) == SubSeq(l, 1, Len(l) - 1)

Last(l) == l[Len(l)]

OperatorCount(l) == Cardinality({i \in 1..Len(l) : l[i] \in Operators})

\* the digit and decimal-point events at the head of l
RECURSIVE TakeOperand(_)
TakeOperand(l) ==
    IF l # <<>> /\ Typing(Head(l)) THEN <<Head(l)>> \o TakeOperand(Tail(l)) ELSE <<>>

\* the number an operand's events enter
OperandValue(keys) == parseFloat(ConcatRule(keys))

\* acc followed by rest = (operator operand)*, evaluated left to right
RECURSIVE Chain(_, _)
Chain(acc, rest) ==
    IF rest = <<>> THEN acc
    ELSE Chain(RoundResult(Exact(Head(rest), acc, OperandValue(TakeOperand(Tail(rest))))),
               Drop(rest, 1 + Len(TakeOperand(Tail(rest)))))

\* the value of  operand (operator operand)*  evaluated left to right
LeftToRight(l) == Chain(OperandValue(TakeOperand(l)), Drop(l, Len(TakeOperand(l))))

\* a text that formatNumber shows for some number
Numeral(t) == t # <<>> /\ formatNumber(t) = t

Symbols == {"+", MinusSign, TimesSign, DivisionSign}

\* "<number> <symbol>"
InProgressText(t) ==
    \E i \in 2..Len(t) :
        /\ Len(t) = i + 1
        /\ t[i] = " "
        /\ t[i + 1] \in Symbols
        /\ Numeral(SubSeq(t, 1, i - 1))

\* "<number> <symbol> <number> ="
CompletedText(t) ==
    \E i \in 2..Len(t) :
        /\ i + 5 <= Len(t)
        /\ t[i] = " "
        /\ t[i + 1] \in Symbols
        /\ t[i + 2] = " "
        /\ t[Len(t) - 1] = " "
        /\ t[Len(t)] = "="
        /\ Numeral(SubSeq(t, 1, i - 1))
        /\ Numeral(SubSeq(t, i + 3, Len(t) - 2))

\* [-] digits [. [digits]]
WellFormedNumeral(t) ==
    LET body == IF t # <<>> /\ Head(t) = "-" THEN Tail(t) ELSE t
        rest == Drop(body, Len(DigitRun(body)))
    IN  /\ DigitRun(body) # <<>>
        /\ rest = <<>> \/ (Head(rest) = "." /\ DigitRun(Tail(rest)) = Tail(rest))

\* an evaluation is due and it is a division by zero
DivisionByZeroPending ==
    /\ operator = "divide"
    /\ previousInput # Unset
    /\ ~waitingForOperand
    /\ parseFloat(currentInput).kind = "num"
    /\ parseFloat(currentInput).mag = <<>>

\* the object and the displays are those of t
Delivered(t) ==
    /\ calc' = <<t.currentInput, t.previousInput, t.operator, t.waitingForOperand,
                 t.justCalculated, t.displayPrimary, t.displayError, t.displaySecondary>>
    /\ timers' = t.timers

----------------------------------------------------------------------------
(* Properties *)

\* C1: after any sequence of digit and decimal-point events from the initial
\* state, currentInput is what the concatenation rule makes of the sequence: a
\* digit replaces a lone "0" and is appended otherwise, a decimal point is
\* appended only if there is none yet.
C1_ConcatenationRule == AllTyping(log) => currentInput = ConcatRule(log)

\* a second decimal point was ignored
C1_Witness == log = <<"1", ".", ".">> /\ currentInput = <<"1", ".">>

\* C2: a, operator, b, equals from the initial state, with the operation
\* defined, leaves currentInput the string of a op b, no previous operand, no
\* operator, awaitingOperand false, justCompleted true, the primary display
\* showing the result and the secondary display "<a> <symbol> <b> =".
C2_BasicOperation ==
    (log # <<>> /\ Last(log) = "equals" /\ OperatorCount(log) = 1) =>
        LET keysA == TakeOperand(log)
            op == log[Len(keysA) + 1]
            a == OperandValue(keysA)
            b == OperandValue(SubSeq(log, Len(keysA) + 2, Len(log) - 1))
            result == RoundResult(Exact(op, a, b))
        IN  /\ currentInput = String(result)
            /\ previousInput = Unset
            /\ operator = "null"
            /\ ~waitingForOperand
            /\ justCalculated
            /\ displayPrimary = formatParsed(result)
            /\ ~displayError
            /\ displaySecondary =
                   formatParsed(a) \o <<" ">> \o getOperatorSymbol(op) \o <<" ">>
                   \o formatParsed(b) \o <<" ", "=">>

\* 1 / 2 = has shown 0.5
C2_Witness ==
    /\ log = <<"1", "divide", "2", "equals">>
    /\ currentInput = <<"0", ".", "5">>
    /\ displaySecondary = <<"1", " ", DivisionSign, " ", "2", " ", "=">>

\* C3: chained operators are evaluated eagerly, left to right, without
\* precedence: when a second operator is submitted after a op1 b, a op1 b is
\* evaluated at once, the result is stored in currentInput (as a string) and in
\* previousInput, and the new operator is installed; a op1 b op2 c = gives
\* (a op1 b) op2 c.
C3_EagerChaining ==
    (log # <<>> /\ OperatorCount(log) >= 2) =>
        /\ Last(log) \in Operators =>
              /\ previousInput = LeftToRight(Front(log))
              /\ currentInput = String(previousInput)
              /\ operator = Last(log)
              /\ waitingForOperand
        /\ Last(log) = "equals" => currentInput = String(LeftToRight(Front(log)))

\* 1 + 2 * 2 = gives 6, not 5
C3_Witness ==
    /\ log = <<"1", "add", "2", "multiply", "2", "equals">>
    /\ currentInput = <<"6">>

\* C4: an evaluation, by equals or by operator chaining, that is a division by
\* zero aborts: currentInput, previousInput, operator, waitingForOperand and
\* justCalculated stay as they were, the primary display shows "Error" and the
\* secondary display "Cannot divide by zero".
C4_DivisionByZeroAborts ==
    [][(DivisionByZeroPending /\ (SubmitEquals \/ \E op \in Operators : SubmitOperator(op)))
       => /\ UNCHANGED <<currentInput, previousInput, operator, waitingForOperand,
                         justCalculated>>
          /\ displayPrimary' = ErrorText
          /\ displayError'
          /\ displaySecondary' = DivideByZeroMessage]_vars

\* the state an aborted division by zero leaves
C4_Witness ==
    /\ DivisionByZeroPending
    /\ displayPrimary = ErrorText
    /\ displaySecondary = DivideByZeroMessage
    /\ log = Off

\* C5: every error display is eventually followed by the timer's clearAll,
\* whatever events come in between, and the state after that clearAll is the
\* initial state.
C5_ErrorRecovers ==
    /\ displayError ~> (timerRan /\ InitialState)
    /\ [][Timeout => InitialState']_vars

\* the timer of an error has run
C5_Witness == timerRan /\ InitialState /\ typed > 0

\* C6: clearAll leaves exactly the state of creation: currentInput "0", no
\* previous operand, no operator, both flags false, primary display "0",
\* secondary display empty.
C6_ClearAllRestores == [][(ClearAll \/ Timeout) => InitialState']_vars

\* clearAll has run on an error display, before the timer
C6_Witness == InitialState /\ timers > 0 /\ typed > 0 /\ log = <<>>

\* C7: a key that is not exactly one digit character delivers no digit event:
\* it does what its action alone does, and a key that is no calculator key
\* changes nothing.
C7_KeyAdapter ==
    [][\A key \in Keys \ {<<DigitChar(d)>> : d \in Digits} :
           KeyDown(key) => Delivered(handleAction(This, KeyAction(key)))]_vars

\* C8: the displays always have one of the shapes: "Error" with the error
\* message, or a numeral in the primary display with a secondary display that
\* is empty, "<number> <symbol>" or "<number> <symbol> <number> ="; the error
\* message never accompanies a numeral.
C8_DisplayShapes ==
    /\ displayError = (displayPrimary = ErrorText)
    /\ IF displayPrimary = ErrorText
       THEN displaySecondary = DivideByZeroMessage
       ELSE /\ Numeral(displayPrimary)
            /\ \/ displaySecondary = <<>>
               \/ InProgressText(displaySecondary)
               \/ CompletedText(displaySecondary)

\* C9: currentInput is always a well-formed, possibly partial, decimal numeral
\* and never a bare "-".
C9_WellFormedInput == WellFormedNumeral(currentInput)

\* C10: currentInput holds at most one decimal point, also after a result was
\* written back by equals or by operator chaining.
C10_OneDecimalPoint == Cardinality({i \in 1..Len(currentInput) : currentInput[i] = "."}) <= 1

\* a result with a decimal point was written back
C10_Witness == justCalculated /\ Contains(currentInput, ".")

\* C11: currentInput is never empty: backspace on a one-character currentInput
\* sets it to "0", so backspace on "0" leaves "0".
C11_NeverEmpty ==
    /\ [](currentInput # <<>>)
    /\ [][Backspace =>
            /\ (Len(currentInput) = 1 /\ ~justCalculated) => currentInput' = <<"0">>
            /\ currentInput = <<"0">> => currentInput' = <<"0">>]_vars

\* the operand after 1 and an operator was emptied to "0"
C11_Witness ==
    /\ currentInput = <<"0">>
    /\ waitingForOperand
    /\ previousInput = Num(FALSE, <<0, 0, 1>>)
    /\ typed = 1

\* C12: waitingForOperand and justCalculated are never both true.
C12_FlagsExclusive == ~(waitingForOperand /\ justCalculated)

\* an operator was submitted on the result 1 + 1 = has left
C12_Witness ==
    /\ waitingForOperand
    /\ ~justCalculated
    /\ operator = "multiply"
    /\ currentInput = <<"2">>
    /\ displaySecondary = <<"2", " ", TimesSign>>
    /\ typed = 2
    /\ log = Off

\* C13: the operator is set if and only if previousInput is set, also after an
\* aborted evaluation, after equals and after clearAll.
C13_OperatorIffPrevious == (operator # "null") <=> (previousInput # Unset)

\* an evaluation was aborted and both are still set
C13_Witness == displayError /\ operator = "divide" /\ previousInput # Unset

\* C14: equals changes no field and no display when there is no operator, or no
\* previous operand, or an operand is awaited.
C14_EqualsNoOp ==
    [][((operator = "null" \/ previousInput = Unset \/ waitingForOperand) /\ SubmitEquals)
       => UNCHANGED <<calc, timers>>]_vars

\* a second equals after 1 + 1 =
C14_Witness ==
    /\ justCalculated
    /\ operator = "null"
    /\ currentInput = <<"2">>
    /\ displaySecondary = <<"1", " ", "+", " ", "1", " ", "=">>
    /\ log = Off

\* C15: backspace changes no field and no display while justCalculated is true.
C15_BackspaceNoOp == [][(justCalculated /\ Backspace) => UNCHANGED <<calc, timers>>]_vars

\* 1 / 2 = and then an event that has left the result 0.5 as it was
C15_Witness ==
    /\ justCalculated
    /\ currentInput = <<"0", ".", "5">>
    /\ displayPrimary = <<"0", ".", "5">>
    /\ log = Off

\* C16: clearEntry leaves previousInput and the operator untouched, and changes
\* no field and no display when currentInput is already "0".
C16_ClearEntryNoOp ==
    [][ClearEntry =>
          /\ UNCHANGED <<previousInput, operator>>
          /\ currentInput = <<"0">> => UNCHANGED <<calc, timers>>]_vars

C19_OperatorReplaces ==
    [][\A op \in Operators :
           (waitingForOperand /\ SubmitOperator(op)) =>
               /\ operator' = op
               /\ UNCHANGED <<previousInput, currentInput>>
               /\ waitingForOperand'
               /\ displaySecondary' =
                      formatNumberValue(previousInput) \o <<" ">> \o getOperatorSymbol(op)]_vars

\* 1, an operator, then multiply
C19_Witness ==
    /\ log = Off
    /\ typed = 1
    /\ waitingForOperand
    /\ operator = "multiply"
    /\ currentInput = <<"1">>
    /\ previousInput = Num(FALSE, <<0, 0, 1>>)
    /\ displaySecondary = <<"1", " ", TimesSign>>

\* C20: whenever the callback of an error's timer runs clearAll, the primary
\* display still shows "Error".
C20_TimerOnlyRecovers == [][Timeout => displayPrimary = ErrorText]_vars

RECURSIVE Pow10(_)
Pow10(k) == IF k = 0 THEN 1 ELSE 10 * Pow10(k - 1)

\* a typed operand as n / 10^k: n from its digits, k the digits after its point
TypedN(t) == CharsNat(SelectSeq(t, IsDigit))

TypedK(t) == IF Contains(t, ".") THEN Len(t) - (CHOOSE i \in 1..Len(t) : t[i] = ".") ELSE 0

\* a decimal with 8 fractional digits: sign, integer part, fraction * 10^8
Decimal(neg, int, frac) ==
    IF frac = Pow10(8) THEN [neg |-> neg, int |-> int + 1, frac |-> 0]
    ELSE [neg |-> neg /\ (int # 0 \/ frac # 0), int |-> int, frac |-> frac]

\* n / 10^k for k <= 8, which needs no rounding
ExactDecimal(neg, n, k) == Decimal(neg, n \div Pow10(k), (n % Pow10(k)) * Pow10(8 - k))

\* n / d rounded to 8 fractional digits, half up, by long division in two
\* steps of 4 digits
RoundedQuotient(n, d) ==
    LET r0 == n % d
        f1 == (r0 * Pow10(4)) \div d
        r1 == (r0 * Pow10(4)) % d
        f2 == (r1 * Pow10(4)) \div d
        r2 == (r1 * Pow10(4)) % d
    IN  Decimal(FALSE, n \div d, f1 * Pow10(4) + f2 + (IF 2 * r2 >= d THEN 1 ELSE 0))

\* a op b for typed operands a and b, exact and then rounded to 8 fractional digits
DecimalResult(op, a, b) ==
    LET k == IF TypedK(a) > TypedK(b) THEN TypedK(a) ELSE TypedK(b)
        x == TypedN(a) * Pow10(k - TypedK(a))
        y == TypedN(b) * Pow10(k - TypedK(b))
    IN  CASE op = "add" -> ExactDecimal(FALSE, x + y, k)
          [] op = "subtract" ->
                IF x >= y THEN ExactDecimal(FALSE, x - y, k) ELSE ExactDecimal(TRUE, y - x, k)
          [] op = "multiply" -> ExactDecimal(FALSE, TypedN(a) * TypedN(b), TypedK(a) + TypedK(b))
          [] op = "divide" -> RoundedQuotient(x, y)

\* a decimal as text, without trailing zeros
DecimalText(r) ==
    (IF r.neg THEN <<"-">> ELSE <<>>) \o NatChars(r.int)
    \o (IF r.frac = 0 THEN <<>>
        ELSE <<".">> \o StripTrailingZeros(Zeros(8 - Len(NatChars(r.frac))) \o NatChars(r.frac)))

====
